---- MODULE Spec2Model ----
(***************************************************************************)
(* A model of the toktok Tokenizer (src/index.js).                         *)
(*                                                                         *)
(* A JavaScript string is a sequence of one-character strings; offsets are *)
(* 0-based as in the source, so the character at offset i is s[i + 1].     *)
(* Block tokens are objects shared by reference between the output tree    *)
(* and #tokenStack: they live in the heap `blocks` and are referred to by  *)
(* their index.                                                            *)
(***************************************************************************)
EXTENDS Integers, Sequences, FiniteSets, TLC

VARIABLES
  input,            \* #input
  options,          \* #options (the fields the code reads)
  tokens,           \* #tokens, the top-level sequence
  blocks,           \* heap of Block objects: opener, closer, children
  tokenBuffer,      \* #tokenBuffer
  tokenStack,       \* #tokenStack, block references, top is last
  position,         \* #position
  line,             \* #line
  column,           \* #column
  inString,         \* #inString
  stringDelimiter,  \* #stringDelimiter
  currentBlock,     \* #currentBlock, a block reference or NoBlock
  status,           \* where tokenize() is: "running", "returned", "threw"
  error,            \* the Error thrown, NoError before
  result,           \* what tokenize() returned, NoResult before
  dispatched,       \* history: <<offset, branch>> of every loop iteration
  returns,          \* history: the value of every return of tokenize()
  filtered          \* history: type and value returned of every filter()

vars == <<input, options, tokens, blocks, tokenBuffer, tokenStack, position,
          line, column, inString, stringDelimiter, currentBlock, status,
          error, result, dispatched, returns, filtered>>

----------------------------------------------------------------------------
(* Values standing for null / undefined.                                   *)

Null == "null"
Undefined == "undefined"
NoBlock == 0
NoToken == [type |-> "none"]
NoError == [message |-> <<>>]
NoResult == <<[type |-> "no result"]>>

----------------------------------------------------------------------------
(* Character classes of the regular expressions in tokenize().             *)

Digits == {"0", "1", "2", "3", "4", "5", "6", "7", "8", "9"}

Letters ==
  {"a", "b", "c", "d", "e", "f", "g", "h", "i", "j", "k", "l", "m",
   "n", "o", "p", "q", "r", "s", "t", "u", "v", "w", "x", "y", "z",
   "A", "B", "C", "D", "E", "F", "G", "H", "I", "J", "K", "L", "M",
   "N", "O", "P", "Q", "R", "S", "T", "U", "V", "W", "X", "Y", "Z"}

\* the grave accent U+0060, the third quote character of /[\x60'"]/; a
\* string constant of this language cannot hold it, so the character is
\* written as this one-element stand-in
Backtick == "U+0060"

Quotes == {Backtick, "'", "\""}

\* /\s/, its ASCII members
WhitespaceChars == {" ", "\t", "\n", "\r", "\f"}

IdentifierChars == Letters \cup {"#", ".", "_", "$", "-"}

SingleSymbols ==
  {"+", "-", "*", "/", ":", ";", ",", "=", "<", ">", "!", "&", "|", "%",
   "^", "~", "?"}

Openers == {"[", "{", "("}

Closers == {"]", "}", ")"}

RegexFlags == {"g", "i", "m", "s", "u", "v", "y"}

ThreeCharOps == {<<"=", "=", "=">>, <<"!", "=", "=">>}

TwoCharOps ==
  {<<"=", "=">>, <<"!", "=">>, <<"<", "=">>, <<">", "=">>, <<"=", ">">>,
   <<"&", "&">>, <<"|", "|">>, <<"+", "+">>, <<"-", "-">>, <<"+", "=">>,
   <<"-", "=">>, <<"*", "=">>, <<"/", "=">>}

RegexContextValues ==
  {<<"=">>, <<"(">>, <<"[">>, <<",">>,
   <<"r", "e", "t", "u", "r", "n">>, <<"t", "h", "r", "o", "w">>}

CloserOf(c) == CASE c = "[" -> "]" [] c = "{" -> "}" [] c = "(" -> ")"

----------------------------------------------------------------------------
(* String primitives of JavaScript on sequences of characters.             *)

Min(a, b) == IF a < b THEN a ELSE b
Max(a, b) == IF a > b THEN a ELSE b

\* s.slice(from, to) for 0 <= from
Slice(s, from, to) == SubSeq(s, from + 1, Min(to, Len(s)))

\* s.startsWith(p)
StartsWith(s, p) == Len(s) >= Len(p) /\ SubSeq(s, 1, Len(p)) = p

\* s[i], undefined outside the string
CharAt(s, i) == IF i >= 0 /\ i < Len(s) THEN s[i + 1] ELSE Undefined

\* s.indexOf(p, from)
IndexOf(s, p, from) ==
  LET hits == {i \in from..(Len(s) - Len(p)) : Slice(s, i, i + Len(p)) = p}
  IN IF hits = {} THEN -1 ELSE CHOOSE i \in hits : \A j \in hits : i <= j

\* comment.split('\n').length - 1
NewlineCount(s) == Cardinality({i \in 1..Len(s) : s[i] = "\n"})

\* lines[lines.length - 1].length for lines = comment.split('\n')
LastLineLength(s) ==
  LET nl == {i \in 1..Len(s) : s[i] = "\n"}
  IN IF nl = {} THEN Len(s)
     ELSE Len(s) - (CHOOSE i \in nl : \A j \in nl : j <= i)

----------------------------------------------------------------------------
(* The scan state threaded through the private methods.  A method is an    *)
(* operator from scan state to scan state; `thrown` holds the Error a      *)
(* method threw (NoError while none), and a caller stops at the first one. *)

Here ==
  [inp |-> input, opt |-> options, tokens |-> tokens, blocks |-> blocks,
   buf |-> tokenBuffer, stack |-> tokenStack, pos |-> position,
   line |-> line, col |-> column, inStr |-> inString,
   delim |-> stringDelimiter, cur |-> currentBlock, thrown |-> NoError]

Threw(s) == s.thrown # NoError

\* #error(message): the message text is kept as its template parts
MakeError(s, message) ==
  LET start == Max(0, s.pos - 20)
      end == Min(Len(s.inp), s.pos + 20)
      base == [message |-> message, position |-> s.pos,
               context |-> Slice(s.inp, start, end),
               pointer |-> s.pos - start]
  IN IF s.opt.trackPosition
     THEN [message |-> message, position |-> s.pos,
           context |-> Slice(s.inp, start, end), pointer |-> s.pos - start,
           line |-> s.line, column |-> s.col]
     ELSE base

Throw(s, message) == [s EXCEPT !.thrown = MakeError(s, message)]

\* the sequence new tokens are appended to
Container(s) == IF s.cur # NoBlock THEN s.blocks[s.cur].children ELSE s.tokens

\* #addToken(token)
AddToken(s, token) ==
  IF s.cur # NoBlock
  THEN [s EXCEPT !.blocks[s.cur].children = Append(@, token)]
  ELSE [s EXCEPT !.tokens = Append(@, token)]

\* #finishToken(type)
FinishToken(s, type) ==
  IF Len(s.buf) > 0
  THEN [AddToken(s, [type |-> type, value |-> s.buf]) EXCEPT !.buf = <<>>]
  ELSE s

\* /^[0-9.]+$/.test(buf)
OnlyNumberChars(buf) ==
  Len(buf) > 0 /\ \A i \in 1..Len(buf) : buf[i] \in Digits \cup {"."}

\* (buf.match(/\./g) || []).length
DotCount(buf) == Cardinality({i \in 1..Len(buf) : buf[i] = "."})

\* #flushBuffer accepting two dots: dotCount > 2 instead of dotCount > 1
FlushBufferTwoDots(s) ==
  IF Len(s.buf) > 0
  THEN IF OnlyNumberChars(s.buf)
       THEN IF DotCount(s.buf) > 2
            THEN Throw(s, <<"Invalid number format: ">> \o s.buf)
            ELSE FinishToken(s, "number")
       ELSE FinishToken(s, "identifier")
  ELSE s

\* #flushBuffer()
FlushBuffer(s) ==
  IF Len(s.buf) > 0
  THEN IF OnlyNumberChars(s.buf)
       THEN IF DotCount(s.buf) > 1
            THEN Throw(s, <<"Invalid number format: ">> \o s.buf)
            ELSE FinishToken(s, "number")
       ELSE FinishToken(s, "identifier")
  ELSE s

\* #peek(offset = 1)
Peek(s) == CharAt(s.inp, s.pos + 1)

\* #checkComment()
CheckComment(s) ==
  LET remaining == Slice(s.inp, s.pos, Len(s.inp))
  IN StartsWith(remaining, <<"/", "/">>) \/ StartsWith(remaining, <<"/", "*">>)

\* #getLastMeaningfulToken returning the last token, whatever its type
GetLastMeaningfulTokenOfAny(s) ==
  LET toks == Container(s)
  IN IF toks = <<>> THEN NoToken ELSE toks[Len(toks)]

\* #getLastMeaningfulToken()
GetLastMeaningfulToken(s) ==
  LET toks == Container(s)
      idx == {i \in 1..Len(toks) : toks[i].type \notin {"whitespace", "comment"}}
  IN IF idx = {} THEN NoToken
     ELSE toks[CHOOSE i \in idx : \A j \in idx : j <= i]

\* #checkRegex()
CheckRegex(s) ==
  IF CharAt(s.inp, s.pos) # "/" THEN FALSE
  ELSE LET lastToken == GetLastMeaningfulToken(s)
           regexContext ==
             \/ lastToken = NoToken
             \/ /\ lastToken.type \in {"symbol", "keyword"}
                /\ lastToken.value \in RegexContextValues
       IN /\ regexContext
          /\ s.pos + 1 < Len(s.inp)
          /\ CharAt(s.inp, s.pos + 1) # "/"
          /\ CharAt(s.inp, s.pos + 1) # "="

\* #checkMultiCharOperator()
CheckMultiCharOperator(s) ==
  LET remaining == Slice(s.inp, s.pos, s.pos + 3)
  IN \/ Slice(remaining, 0, 3) \in ThreeCharOps
     \/ Slice(remaining, 0, 2) \in TwoCharOps

----------------------------------------------------------------------------
(* The private methods the main loop dispatches to.                        *)

\* #handleStringContent without the escape branch
HandleStringContentNoEscape(s, char) ==
  IF char = s.delim
  THEN [FinishToken(s, "string") EXCEPT !.inStr = FALSE, !.delim = Null]
  ELSE [s EXCEPT !.buf = Append(@, char)]

\* #handleStringContent closing the string at any quote character
HandleStringContentAnyQuote(s, char) ==
  IF char = "\\" /\ s.pos + 1 < Len(s.inp)
  THEN [s EXCEPT !.buf = Append(Append(@, char), CharAt(s.inp, s.pos + 1)),
                 !.pos = @ + 1]
  ELSE IF char \in Quotes
       THEN [FinishToken(s, "string") EXCEPT !.inStr = FALSE, !.delim = Null]
       ELSE [s EXCEPT !.buf = Append(@, char)]

\* #handleStringContent(char)
HandleStringContent(s, char) ==
  IF char = "\\" /\ s.pos + 1 < Len(s.inp)
  THEN [s EXCEPT !.buf = Append(Append(@, char), CharAt(s.inp, s.pos + 1)),
                 !.pos = @ + 1]
  ELSE IF char = s.delim
       THEN [FinishToken(s, "string") EXCEPT !.inStr = FALSE, !.delim = Null]
       ELSE [s EXCEPT !.buf = Append(@, char)]

\* #startString(delimiter)
StartString(s, delimiter) ==
  LET f == FlushBuffer(s)
  IN IF Threw(f) THEN f
     ELSE [f EXCEPT !.inStr = TRUE, !.delim = delimiter]

\* #handleComment leaving the offset of a line comment where it was
HandleCommentInPlace(s) ==
  LET f == FlushBuffer(s)
      remaining == Slice(f.inp, f.pos, Len(f.inp))
  IN IF Threw(f) THEN f
     ELSE IF StartsWith(remaining, <<"/", "/">>)
     THEN LET endIndex == IndexOf(f.inp, <<"\n">>, f.pos)
              commentEnd == IF endIndex = -1 THEN Len(f.inp) ELSE endIndex
              comment == Slice(f.inp, f.pos, commentEnd)
              a == IF f.opt.preserveComments
                   THEN AddToken(f, [type |-> "comment", value |-> comment])
                   ELSE f
          IN [a EXCEPT !.pos = f.pos - 1]
     ELSE IF StartsWith(remaining, <<"/", "*">>)
     THEN LET endIndex == IndexOf(f.inp, <<"*", "/">>, f.pos + 2)
              comment == Slice(f.inp, f.pos, endIndex + 2)
              a == IF f.opt.preserveComments
                   THEN AddToken(f, [type |-> "comment", value |-> comment])
                   ELSE f
          IN IF endIndex = -1
             THEN Throw(f, <<"Unclosed multi-line comment">>)
             ELSE [a EXCEPT
                     !.line = @ + NewlineCount(comment),
                     !.col = IF NewlineCount(comment) + 1 > 1
                             THEN LastLineLength(comment) ELSE @,
                     !.pos = endIndex + 1]
     ELSE f

\* #handleComment()
HandleComment(s) ==
  LET f == FlushBuffer(s)
      remaining == Slice(f.inp, f.pos, Len(f.inp))
  IN IF Threw(f) THEN f
     ELSE IF StartsWith(remaining, <<"/", "/">>)
     THEN LET endIndex == IndexOf(f.inp, <<"\n">>, f.pos)
              commentEnd == IF endIndex = -1 THEN Len(f.inp) ELSE endIndex
              comment == Slice(f.inp, f.pos, commentEnd)
              a == IF f.opt.preserveComments
                   THEN AddToken(f, [type |-> "comment", value |-> comment])
                   ELSE f
          IN [a EXCEPT !.pos = commentEnd - 1]
     ELSE IF StartsWith(remaining, <<"/", "*">>)
     THEN LET endIndex == IndexOf(f.inp, <<"*", "/">>, f.pos + 2)
              comment == Slice(f.inp, f.pos, endIndex + 2)
              a == IF f.opt.preserveComments
                   THEN AddToken(f, [type |-> "comment", value |-> comment])
                   ELSE f
          IN IF endIndex = -1
             THEN Throw(f, <<"Unclosed multi-line comment">>)
             ELSE [a EXCEPT
                     !.line = @ + NewlineCount(comment),
                     !.col = IF NewlineCount(comment) + 1 > 1
                             THEN LastLineLength(comment) ELSE @,
                     !.pos = endIndex + 1]
     ELSE f

\* the flag loop of #handleRegex: the offset after the run of flag letters
RECURSIVE FlagsEnd(_, _)
FlagsEnd(inp, pos) ==
  IF pos < Len(inp) /\ inp[pos + 1] \in RegexFlags
  THEN FlagsEnd(inp, pos + 1)
  ELSE pos

\* the scanning loop of #handleRegex; the result is the scan state after
\* the return or the throw
RECURSIVE RegexLoop(_, _, _, _, _)
RegexLoop(s, pos, regex, escaped, inCharClass) ==
  IF pos < Len(s.inp)
  THEN LET char == s.inp[pos + 1]
           r == Append(regex, char)
       IN IF escaped THEN RegexLoop(s, pos + 1, r, FALSE, inCharClass)
          ELSE IF char = "\\" THEN RegexLoop(s, pos + 1, r, TRUE, inCharClass)
          ELSE IF char = "[" /\ ~inCharClass
               THEN RegexLoop(s, pos + 1, r, escaped, TRUE)
          ELSE IF char = "]" /\ inCharClass
               THEN RegexLoop(s, pos + 1, r, escaped, FALSE)
          ELSE IF char = "/" /\ ~inCharClass
               THEN LET after == FlagsEnd(s.inp, pos + 1)
                        whole == r \o Slice(s.inp, pos + 1, after)
                    IN [AddToken(s, [type |-> "regex", value |-> whole])
                          EXCEPT !.pos = after - 1]
          ELSE IF char = "\n"
               THEN Throw(s, <<"Unterminated regular expression">>)
          ELSE RegexLoop(s, pos + 1, r, escaped, inCharClass)
  ELSE Throw(s, <<"Unterminated regular expression">>)

\* #handleRegex()
HandleRegex(s) ==
  LET f == FlushBuffer(s)
  IN IF Threw(f) THEN f
     ELSE RegexLoop(f, f.pos + 1, <<"/">>, FALSE, FALSE)

\* #updatePosition(char)
UpdatePosition(s, char) ==
  IF char = "\n"
  THEN [s EXCEPT !.line = @ + 1, !.col = 1]
  ELSE IF char = "\r"
       THEN [s EXCEPT !.pos = IF Peek(s) = "\n" THEN @ + 1 ELSE @,
                      !.line = @ + 1, !.col = 1]
       ELSE s

\* the whitespace branch of tokenize()
HandleWhitespace(s, char) ==
  LET f == FlushBuffer(s)
  IN IF Threw(f) THEN f
     ELSE IF f.opt.preserveWhitespace
          THEN UpdatePosition(
                 AddToken(f, [type |-> "whitespace", value |-> <<char>>]), char)
          ELSE UpdatePosition(f, char)

\* the two branches of tokenize() that extend the buffer
AppendToBuffer(s, char) == [s EXCEPT !.buf = Append(@, char)]

\* #handleMultiCharOperator trying the 2-character operators first
HandleMultiCharOperatorShortFirst(s) ==
  LET f == FlushBuffer(s)
      remaining == Slice(f.inp, f.pos, f.pos + 3)
      twoChar == Slice(remaining, 0, 2)
  IN IF Threw(f) THEN f
     ELSE IF twoChar \in TwoCharOps
          THEN [AddToken(f, [type |-> "symbol", value |-> twoChar])
                  EXCEPT !.pos = @ + 1]
          ELSE IF Slice(remaining, 0, 3) \in ThreeCharOps
               THEN [AddToken(f, [type |-> "symbol",
                                  value |-> Slice(remaining, 0, 3)])
                       EXCEPT !.pos = @ + 2]
               ELSE f

\* #handleMultiCharOperator()
HandleMultiCharOperator(s) ==
  LET f == FlushBuffer(s)
      remaining == Slice(f.inp, f.pos, f.pos + 3)
      twoChar == Slice(remaining, 0, 2)
  IN IF Threw(f) THEN f
     ELSE IF Slice(remaining, 0, 3) \in ThreeCharOps
          THEN [AddToken(f, [type |-> "symbol",
                             value |-> Slice(remaining, 0, 3)])
                  EXCEPT !.pos = @ + 2]
          ELSE IF twoChar \in TwoCharOps
               THEN [AddToken(f, [type |-> "symbol", value |-> twoChar])
                       EXCEPT !.pos = @ + 1]
               ELSE f

\* the single-character symbol branch of tokenize()
HandleSymbol(s, char) ==
  LET f == FlushBuffer(s)
  IN IF Threw(f) THEN f
     ELSE AddToken(f, [type |-> "symbol", value |-> <<char>>])

\* #startBlock with the Block appended to the top-level output instead of
\* the open container
StartBlockAtTopLevel(s, char) ==
  LET f == FlushBuffer(s)
      ref == Len(f.blocks) + 1
      block == [type |-> "block", opener |-> char, closer |-> CloserOf(char),
                children |-> <<>>]
  IN IF Threw(f) THEN f
     ELSE [f EXCEPT !.tokens = Append(@, [type |-> "block", ref |-> ref]),
                    !.blocks = Append(@, block),
                    !.stack = Append(@, ref),
                    !.cur = ref]

\* #startBlock(char): the new Block object gets the next free reference
StartBlock(s, char) ==
  LET f == FlushBuffer(s)
      ref == Len(f.blocks) + 1
      block == [type |-> "block", opener |-> char, closer |-> CloserOf(char),
                children |-> <<>>]
      a == AddToken(f, [type |-> "block", ref |-> ref])
  IN IF Threw(f) THEN f
     ELSE [a EXCEPT !.blocks = Append(@, block),
                    !.stack = Append(@, ref),
                    !.cur = ref]

\* #finishBlock with expected and actual closer exchanged in the message
FinishBlockSwapped(s, char) ==
  LET f == FlushBuffer(s)
  IN IF Threw(f) THEN f
     ELSE IF Len(f.stack) = 0
     THEN Throw(f, <<"Unbalanced closing bracket '", char, "'">>)
     ELSE LET top == f.blocks[f.stack[Len(f.stack)]]
              popped == SubSeq(f.stack, 1, Len(f.stack) - 1)
          IN IF top.closer # char
             THEN Throw(f, <<"Mismatched brackets: expected '", char,
                             "' but got '", top.closer, "'">>)
             ELSE [f EXCEPT !.stack = popped,
                            !.cur = IF Len(popped) > 0
                                    THEN popped[Len(popped)] ELSE NoBlock]

\* #finishBlock(char)
FinishBlock(s, char) ==
  LET f == FlushBuffer(s)
  IN IF Threw(f) THEN f
     ELSE IF Len(f.stack) = 0
     THEN Throw(f, <<"Unbalanced closing bracket '", char, "'">>)
     ELSE LET top == f.blocks[f.stack[Len(f.stack)]]
              popped == SubSeq(f.stack, 1, Len(f.stack) - 1)
          IN IF top.closer # char
             THEN Throw(f, <<"Mismatched brackets: expected '", top.closer,
                             "' but got '", char, "'">>)
             ELSE [f EXCEPT !.stack = popped,
                            !.cur = IF Len(popped) > 0
                                    THEN popped[Len(popped)] ELSE NoBlock]

\* the last branch of tokenize()
Unexpected(s, char) == Throw(s, <<"Unexpected character: ", char>>)

----------------------------------------------------------------------------
(* tokenize(): one action per branch of the main loop, one for the code    *)
(* after the loop.                                                         *)

Running == status = "running" /\ position < Len(input)

\* const char = this.#input[this.#position]
Char == input[position + 1]

\* the else-if chain of the main loop: the first condition that holds
Branch(s, char) ==
  IF s.inStr THEN "string"
  ELSE IF CheckComment(s) THEN "comment"
  ELSE IF s.opt.allowRegex /\ CheckRegex(s) THEN "regex"
  ELSE IF char \in Quotes THEN "startString"
  ELSE IF char \in WhitespaceChars THEN "whitespace"
  ELSE IF char \in Digits \/ (char = "." /\ Peek(s) \in Digits) THEN "digit"
  ELSE IF char \in IdentifierChars THEN "identifier"
  ELSE IF CheckMultiCharOperator(s) THEN "operator"
  ELSE IF char \in SingleSymbols THEN "symbol"
  ELSE IF char \in Openers THEN "startBlock"
  ELSE IF char \in Closers THEN "finishBlock"
  ELSE "unexpected"

\* the end of an iteration: the method's effects, then this.#position++ and
\* the column increment, both skipped when the method threw
Iterate(h, char, branch) ==
  /\ tokens' = h.tokens
  /\ blocks' = h.blocks
  /\ tokenBuffer' = h.buf
  /\ tokenStack' = h.stack
  /\ line' = h.line
  /\ inString' = h.inStr
  /\ stringDelimiter' = h.delim
  /\ currentBlock' = h.cur
  /\ dispatched' = Append(dispatched, <<position, branch>>)
  /\ IF Threw(h)
     THEN /\ status' = "threw"
          /\ error' = h.thrown
          /\ position' = h.pos
          /\ column' = h.col
     ELSE /\ position' = h.pos + 1
          /\ column' = IF char # "\n" /\ char # "\r" THEN h.col + 1 ELSE h.col
          /\ UNCHANGED <<status, error>>
  /\ UNCHANGED <<input, options, result, returns, filtered>>

StringStep ==
  /\ Running /\ Branch(Here, Char) = "string"
  /\ Iterate(HandleStringContent(Here, Char), Char, "string")

CommentStep ==
  /\ Running /\ Branch(Here, Char) = "comment"
  /\ Iterate(HandleComment(Here), Char, "comment")

RegexStep ==
  /\ Running /\ Branch(Here, Char) = "regex"
  /\ Iterate(HandleRegex(Here), Char, "regex")

StartStringStep ==
  /\ Running /\ Branch(Here, Char) = "startString"
  /\ Iterate(StartString(Here, Char), Char, "startString")

WhitespaceStep ==
  /\ Running /\ Branch(Here, Char) = "whitespace"
  /\ Iterate(HandleWhitespace(Here, Char), Char, "whitespace")

DigitStep ==
  /\ Running /\ Branch(Here, Char) = "digit"
  /\ Iterate(AppendToBuffer(Here, Char), Char, "digit")

IdentifierStep ==
  /\ Running /\ Branch(Here, Char) = "identifier"
  /\ Iterate(AppendToBuffer(Here, Char), Char, "identifier")

OperatorStep ==
  /\ Running /\ Branch(Here, Char) = "operator"
  /\ Iterate(HandleMultiCharOperator(Here), Char, "operator")

SymbolStep ==
  /\ Running /\ Branch(Here, Char) = "symbol"
  /\ Iterate(HandleSymbol(Here, Char), Char, "symbol")

StartBlockStep ==
  /\ Running /\ Branch(Here, Char) = "startBlock"
  /\ Iterate(StartBlock(Here, Char), Char, "startBlock")

FinishBlockStep ==
  /\ Running /\ Branch(Here, Char) = "finishBlock"
  /\ Iterate(FinishBlock(Here, Char), Char, "finishBlock")

UnexpectedStep ==
  /\ Running /\ Branch(Here, Char) = "unexpected"
  /\ Iterate(Unexpected(Here, Char), Char, "unexpected")

\* the code after the loop, naming the outermost open block instead of the
\* innermost
EndOfInputOutermost(s) ==
  LET f == FlushBuffer(s)
  IN IF Threw(f) THEN f
     ELSE IF Len(f.stack) > 0
     THEN Throw(f, <<"Unclosed block starting with '",
                     f.blocks[f.stack[1]].opener, "'">>)
     ELSE IF f.inStr
     THEN Throw(f, <<"Unclosed string starting with '", f.delim, "'">>)
     ELSE f

\* the code of tokenize() after the loop
EndOfInput(s) ==
  LET f == FlushBuffer(s)
  IN IF Threw(f) THEN f
     ELSE IF Len(f.stack) > 0
     THEN Throw(f, <<"Unclosed block starting with '",
                     f.blocks[f.stack[Len(f.stack)]].opener, "'">>)
     ELSE IF f.inStr
     THEN Throw(f, <<"Unclosed string starting with '", f.delim, "'">>)
     ELSE f

\* return this.#currentBlock || this.#tokens
ReturnValue(s) ==
  IF s.cur # NoBlock THEN [type |-> "block", ref |-> s.cur] ELSE s.tokens

Finish ==
  /\ status = "running" /\ position >= Len(input)
  /\ LET h == EndOfInput(Here)
     IN /\ tokens' = h.tokens
        /\ blocks' = h.blocks
        /\ tokenBuffer' = h.buf
        /\ IF Threw(h)
           THEN /\ status' = "threw" /\ error' = h.thrown
                /\ UNCHANGED <<result, returns>>
           ELSE /\ status' = "returned" /\ result' = ReturnValue(h)
                /\ returns' = Append(returns, ReturnValue(h))
                /\ UNCHANGED error
  /\ UNCHANGED <<input, options, tokenStack, position, line, column, inString,
                 stringDelimiter, currentBlock, dispatched, filtered>>

Next ==
  \/ StringStep
  \/ CommentStep
  \/ RegexStep
  \/ StartStringStep
  \/ WhitespaceStep
  \/ DigitStep
  \/ IdentifierStep
  \/ OperatorStep
  \/ SymbolStep
  \/ StartBlockStep
  \/ FinishBlockStep
  \/ UnexpectedStep
  \/ Finish

----------------------------------------------------------------------------
(* tokenize() as a function of the input and the options: the loop and the  *)
(* code after it, applied to the scan state of a new instance.              *)

\* the method the dispatch chain calls for a branch
Handle(s, char, branch) ==
  CASE branch = "string" -> HandleStringContent(s, char)
    [] branch = "comment" -> HandleComment(s)
    [] branch = "regex" -> HandleRegex(s)
    [] branch = "startString" -> StartString(s, char)
    [] branch = "whitespace" -> HandleWhitespace(s, char)
    [] branch = "digit" -> AppendToBuffer(s, char)
    [] branch = "identifier" -> AppendToBuffer(s, char)
    [] branch = "operator" -> HandleMultiCharOperator(s)
    [] branch = "symbol" -> HandleSymbol(s, char)
    [] branch = "startBlock" -> StartBlock(s, char)
    [] branch = "finishBlock" -> FinishBlock(s, char)
    [] OTHER -> Unexpected(s, char)

\* this.#position++ and the column increment that end an iteration
Advance(h, char) ==
  IF Threw(h) THEN h
  ELSE [h EXCEPT !.pos = @ + 1,
                 !.col = IF char # "\n" /\ char # "\r" THEN @ + 1 ELSE @]

\* the loop from a scan state on, then the code after the loop
RECURSIVE TokenizeFrom(_)
TokenizeFrom(s) ==
  IF Threw(s) THEN s
  ELSE IF s.pos < Len(s.inp)
  THEN LET char == s.inp[s.pos + 1]
       IN TokenizeFrom(Advance(Handle(s, char, Branch(s, char)), char))
  ELSE EndOfInput(s)

\* the scan state of new Tokenizer(inp, opt)
Constructed(inp, opt) ==
  [inp |-> inp, opt |-> opt, tokens |-> <<>>, blocks |-> <<>>,
   buf |-> <<>>, stack |-> <<>>, pos |-> 0, line |-> 1, col |-> 1,
   inStr |-> FALSE, delim |-> Null, cur |-> NoBlock, thrown |-> NoError]

\* new Tokenizer(inp, opt).tokenize()
Tokenize(inp, opt) == TokenizeFrom(Constructed(inp, opt))

----------------------------------------------------------------------------
(* The instance after tokenize() has returned: the public utility methods  *)
(* and a further call of tokenize().                                       *)

\* filterRecursive of filter(type): the tokens kept, and the heap after the
\* assignments to token.children
RECURSIVE FilterRecursive(_, _, _)
FilterRecursive(toks, bl, type) ==
  IF toks = <<>> THEN [kept |-> <<>>, blocks |-> bl]
  ELSE LET token == Head(toks)
       IN IF token.type = type
          THEN LET rest == FilterRecursive(Tail(toks), bl, type)
               IN [kept |-> <<token>> \o rest.kept, blocks |-> rest.blocks]
          ELSE IF token.type = "block"
          THEN LET inner == FilterRecursive(bl[token.ref].children, bl, type)
                   assigned == [inner.blocks EXCEPT
                                  ![token.ref].children = inner.kept]
                   rest == FilterRecursive(Tail(toks), assigned, type)
               IN [kept |-> (IF Len(inner.kept) > 0 THEN <<token>> ELSE <<>>)
                              \o rest.kept,
                   blocks |-> rest.blocks]
          ELSE FilterRecursive(Tail(toks), bl, type)

\* JSON.stringify(value) of a string value
RECURSIVE JsonEscape(_)
JsonEscape(value) ==
  IF value = <<>> THEN <<>>
  ELSE LET c == Head(value)
       IN (CASE c = "\"" -> <<"\\", "\"">>
             [] c = "\\" -> <<"\\", "\\">>
             [] c = "\n" -> <<"\\", "n">>
             [] c = "\r" -> <<"\\", "r">>
             [] c = "\t" -> <<"\\", "t">>
             [] OTHER -> <<c>>) \o JsonEscape(Tail(value))

JsonStringify(value) == <<"\"">> \o JsonEscape(value) \o <<"\"">>

\* printToken of toString(), mapped over a token list and joined; no token
\* has a position property, so pos is always ''
RECURSIVE PrintTokens(_, _, _)
PrintTokens(toks, bl, level) ==
  IF toks = <<>> THEN <<>>
  ELSE LET token == Head(toks)
           spaces == [i \in 1..(2 * level) |-> " "]
           printed ==
             IF token.type = "block"
             THEN spaces \o <<"block", ":", " ", bl[token.ref].opener,
                              ".", ".", ".", bl[token.ref].closer, "\n">>
                         \o PrintTokens(bl[token.ref].children, bl, level + 1)
             ELSE spaces \o <<token.type, ":", " ">>
                         \o JsonStringify(token.value) \o <<"\n">>
       IN printed \o PrintTokens(Tail(toks), bl, level)

\* toString() with the default indent
toString == PrintTokens(tokens, blocks, 0)

\* searchRecursive of find(predicate) for the predicate
\* token => types.includes(token.type)
RECURSIVE SearchRecursive(_, _, _)
SearchRecursive(toks, bl, types) ==
  IF toks = <<>> THEN <<>>
  ELSE LET token == Head(toks)
       IN (IF token.type \in types THEN <<token>> ELSE <<>>)
          \o (IF token.type = "block"
              THEN SearchRecursive(bl[token.ref].children, bl, types)
              ELSE <<>>)
          \o SearchRecursive(Tail(toks), bl, types)

\* find(token => types.includes(token.type))
find(types) == SearchRecursive(tokens, blocks, types)

\* countRecursive of getStats(): stats after the tokens are counted
RECURSIVE CountRecursive(_, _, _)
CountRecursive(toks, bl, stats) ==
  IF toks = <<>> THEN stats
  ELSE LET token == Head(toks)
           counted ==
             [stats EXCEPT
                !.total = @ + 1,
                !.byType =
                  [ty \in DOMAIN @ \cup {token.type} |->
                     IF ty = token.type
                     THEN (IF ty \in DOMAIN @ THEN @[ty] ELSE 0) + 1
                     ELSE @[ty]]]
           inside ==
             IF token.type = "block"
             THEN CountRecursive(bl[token.ref].children, bl, counted)
             ELSE counted
       IN CountRecursive(Tail(toks), bl, inside)

\* getStats()
getStats ==
  CountRecursive(tokens, blocks,
                 [total |-> 0, byType |-> [ty \in {} |-> 0], lines |-> line])

\* the token types filter() is called with
FilterTypes == {"identifier", "symbol", "number", "block"}

\* calls of filter() on one instance
MaxFilterCalls == 2

\* calls of tokenize() on one instance
MaxTokenizeCalls == 2

\* filter(type), called on an instance whose tokenize() has returned
FilterCall ==
  /\ status = "returned"
  /\ Len(filtered) < MaxFilterCalls
  /\ \E type \in FilterTypes :
       LET r == FilterRecursive(tokens, blocks, type)
       IN /\ blocks' = r.blocks
          /\ filtered' = Append(filtered, [type |-> type, value |-> r.kept])
  /\ UNCHANGED <<input, options, tokens, tokenBuffer, tokenStack, position,
                 line, column, inString, stringDelimiter, currentBlock,
                 status, error, result, dispatched, returns>>

\* tokenize() called again, scanning the input from its first character
TokenizeCallRewinding ==
  /\ status = "returned"
  /\ Len(returns) < MaxTokenizeCalls
  /\ status' = "running"
  /\ position' = 0
  /\ UNCHANGED <<input, options, tokens, blocks, tokenBuffer, tokenStack,
                 line, column, inString, stringDelimiter,
                 currentBlock, error, result, dispatched, returns, filtered>>

\* tokenize() is called again on the instance: the loop and the code after
\* it run on the fields as the previous call left them
TokenizeCall ==
  /\ status = "returned"
  /\ Len(returns) < MaxTokenizeCalls
  /\ status' = "running"
  /\ UNCHANGED <<input, options, tokens, blocks, tokenBuffer, tokenStack,
                 position, line, column, inString, stringDelimiter,
                 currentBlock, error, result, dispatched, returns, filtered>>

\* the life of an instance: tokenize(), then utilities and further calls
NextInstance ==
  \/ Next
  \/ FilterCall
  \/ TokenizeCall

----------------------------------------------------------------------------
(* Construction.  new Tokenizer(input, options) with the field             *)
(* initialisers of the class.                                              *)

DefaultOptions ==
  [trackPosition |-> TRUE, preserveWhitespace |-> FALSE,
   preserveComments |-> TRUE, allowRegex |-> TRUE]

Construct(inputs, opts) ==
  /\ input \in inputs
  /\ options \in opts
  /\ tokens = <<>>
  /\ blocks = <<>>
  /\ tokenBuffer = <<>>
  /\ tokenStack = <<>>
  /\ position = 0
  /\ line = 1
  /\ column = 1
  /\ inString = FALSE
  /\ stringDelimiter = Null
  /\ currentBlock = NoBlock
  /\ status = "running"
  /\ error = NoError
  /\ result = NoResult
  /\ dispatched = <<>>
  /\ returns = <<>>
  /\ filtered = <<>>

----------------------------------------------------------------------------
(* Inputs.  The scenarios of the documentation and the tests are part of   *)
(* every specification; each specification adds all the strings over an    *)
(* alphabet, up to a length.                                               *)

\* spec.md section 8, Scenario A
ScenarioA ==
  <<"l", "e", "t", " ", "x", "=", "1", ";">>

\* Scenario B
ScenarioB ==
  <<"a", " ", "=", "=", "=", " ", "b">>

\* Scenario C
ScenarioC ==
  <<"/", "*", " ", "a", " ", "*", "/", "x">>

\* Scenario D
ScenarioD ==
  <<"[", "1", ",", "2", ",", "3", ")">>

\* Scenario E
ScenarioE ==
  <<"\"", "u", "n", "t", "e", "r", "m", "i", "n", "a", "t", "e", "d">>

\* Scenario F
ScenarioF ==
  <<"1", ".", "2", ".", "3">>

\* the regex example of README.md and test.js, shortened
RegexExample ==
  <<"p", " ", "=", " ", "/", "[", "a", "-", "z", "]", "+", "/", "g", "i", ";">>

\* the comment example of test.js, shortened
CommentExample ==
  <<"/", "/", " ", "c", "\n", "{", " ", "/", "*", " ", "m", "\n", " ", "*", "/", " ", "r", "e", "t", "u", "r", "n", " ", ".", "5", ";", " ", "}">>

\* a character no branch accepts
StrayCharacter ==
  <<"a", " ", "@">>

Scenarios ==
  {ScenarioA, ScenarioB, ScenarioC, ScenarioD, ScenarioE, ScenarioF,
   RegexExample, CommentExample, StrayCharacter}

Words(alphabet, n) == UNION {[1..k -> alphabet] : k \in 0..n}

\* longest word over BracketAlphabet
MaxBracketLen == 4

BracketAlphabet == {"(", ")", "[", "]", "a", ".", "\"", "/"}

BracketInputs == Scenarios \cup Words(BracketAlphabet, MaxBracketLen)

\* brackets, strings, pending runs and slashes, default options
Spec == Construct(BracketInputs, {DefaultOptions}) /\ [][Next]_vars

\* longest word over BufferAlphabet
MaxBufferLen == 4

BufferAlphabet == {"1", ".", "a", "-", " ", "+", "\"", "/", "(", ")"}

BufferInputs == Scenarios \cup Words(BufferAlphabet, MaxBufferLen)

\* identifier and number runs and everything that ends one
SpecBuffer == Construct(BufferInputs, {DefaultOptions}) /\ [][Next]_vars

\* longest word over OperatorAlphabet
MaxOperatorLen == 5

OperatorAlphabet == {"=", "!", ">", "-", ".", "a"}

OperatorInputs == Scenarios \cup Words(OperatorAlphabet, MaxOperatorLen)

\* operators next to each other and next to pending runs
SpecOperators == Construct(OperatorInputs, {DefaultOptions}) /\ [][Next]_vars

----------------------------------------------------------------------------
(* Vocabulary of the properties.                                           *)

Range(f) == {f[i] : i \in DOMAIN f}

Last(q) == q[Len(q)]

Front(q) == SubSeq(q, 1, Len(q) - 1)

BlockToken(ref) == [type |-> "block", ref |-> ref]

\* the children of a block reference, the top-level sequence for NoBlock
ChildrenOf(tk, bl, ref) == IF ref = NoBlock THEN tk ELSE bl[ref].children

\* every token of the tree, at every depth
TreeTokens == Range(tokens) \cup UNION {Range(blocks[b].children) : b \in DOMAIN blocks}

\* the pending buffer is a malformed number: #flushBuffer would throw
PendingMalformed == OnlyNumberChars(tokenBuffer) /\ DotCount(tokenBuffer) > 1

\* an iteration of the main loop is about to take the given branch
Dispatching(branch) == Running /\ Branch(Here, Char) = branch

AtEndOfInput == status = "running" /\ position >= Len(input)

Finished == status \in {"returned", "threw"}

\* the characters the loop dispatched as brackets, in input order
RECURSIVE BracketsOf(_)
BracketsOf(d) ==
  IF d = <<>> THEN <<>>
  ELSE IF d[1][2] \in {"startBlock", "finishBlock"}
       THEN <<input[d[1][1] + 1]>> \o BracketsOf(Tail(d))
       ELSE BracketsOf(Tail(d))

\* a bracket sequence is balanced: read with a stack of expected closers
RECURSIVE BalancedFrom(_, _)
BalancedFrom(q, expected) ==
  IF q = <<>> THEN expected = <<>>
  ELSE IF q[1] \in Openers
       THEN BalancedFrom(Tail(q), <<CloserOf(q[1])>> \o expected)
       ELSE /\ expected # <<>>
            /\ expected[1] = q[1]
            /\ BalancedFrom(Tail(q), Tail(expected))

Balanced(q) == BalancedFrom(q, <<>>)

----------------------------------------------------------------------------
(* C1.  The bracket stack and the output tree stay synchronized.           *)

\* #currentBlock is the stack top (null exactly when the stack is empty)
\* and every block on the stack is a child of the block beneath it, the
\* bottom one an element of the top-level sequence
StackMatchesTree ==
  /\ currentBlock = IF tokenStack = <<>> THEN NoBlock ELSE Last(tokenStack)
  /\ \A i \in 1..Len(tokenStack) :
       /\ tokenStack[i] \in DOMAIN blocks
       /\ BlockToken(tokenStack[i]) \in
            Range(ChildrenOf(tokens, blocks,
                             IF i = 1 THEN NoBlock ELSE tokenStack[i - 1]))

\* a Block is created exactly in the step that appends it to the open
\* container and pushes it; the stack changes in no other way than that and
\* popping its top on the top's own closer
StackStep ==
  /\ Len(blocks') >= Len(blocks)
  /\ Len(blocks') > Len(blocks) \/ Len(tokenStack') > Len(tokenStack) =>
       /\ Dispatching("startBlock")
       /\ Len(blocks') = Len(blocks) + 1
       /\ blocks'[Len(blocks')].opener = Char
       /\ blocks'[Len(blocks')].children = <<>>
       /\ tokenStack' = Append(tokenStack, Len(blocks'))
       /\ currentBlock' = Len(blocks')
       /\ LET open == ChildrenOf(tokens', blocks', currentBlock)
          IN open # <<>> /\ Last(open) = BlockToken(Len(blocks'))
  /\ Len(tokenStack') < Len(tokenStack) =>
       /\ Dispatching("finishBlock")
       /\ tokenStack' = Front(tokenStack)
       /\ blocks[Last(tokenStack)].closer = Char
  /\ Len(tokenStack') = Len(tokenStack) => tokenStack' = tokenStack

\* C1: at every point of tokenize() the bracket stack and the tree are
\* synchronized, and every step opens or closes blocks on both at once.
C1_StackTreeSynchronized == [](StackMatchesTree) /\ [][StackStep]_vars

\* a nested block was closed while its parent is still open
C1_Witness ==
  /\ Len(tokenStack) = 1
  /\ Len(blocks) >= 2
  /\ BlockToken(2) \in Range(blocks[1].children)
  /\ dispatched # <<>> /\ Last(dispatched)[2] = "finishBlock"

----------------------------------------------------------------------------
(* C2.  Balanced, well-formed input is accepted.                           *)

\* inputs that are well formed on any reading: only letters, spaces,
\* brackets and slashes, the brackets balanced, and every slash a division
\* between two identifiers (so there is no string, comment, regex or number
\* literal at all)
PlainWellFormed(inp) ==
  /\ \A i \in 1..Len(inp) :
       inp[i] \in Letters \cup Openers \cup Closers \cup {"/", " "}
  /\ Balanced(SelectSeq(inp, LAMBDA c : c \in Openers \cup Closers))
  /\ \A i \in 1..Len(inp) :
       inp[i] = "/" => /\ 1 < i /\ i < Len(inp)
                       /\ inp[i - 1] \in Letters
                       /\ inp[i + 1] \in Letters

\* C2: on balanced input with well-formed literals tokenize() returns
\* without throwing and the bracket stack is empty when it returns.
C2_WellFormedInputSucceeds ==
  (Finished /\ PlainWellFormed(input)) =>
    (status = "returned" /\ tokenStack = <<>>)

----------------------------------------------------------------------------
(* C3.  A closer that does not match the open block.                       *)

MismatchCase ==
  /\ Dispatching("finishBlock")
  /\ tokenStack # <<>>
  /\ blocks[Last(tokenStack)].closer # Char

MismatchReported ==
  /\ status' = "threw"
  /\ error'.message = <<"Mismatched brackets: expected '",
                        blocks[Last(tokenStack)].closer,
                        "' but got '", Char, "'">>
  /\ error'.position = position
  /\ input[error'.position + 1] = Char

\* C3 as stated: a closing bracket dispatched on a non-empty stack whose top
\* has another closer makes tokenize() throw 'Mismatched brackets', naming
\* the top's closer as expected and the character as actual, at the offset
\* of the character.
C3_MismatchAlwaysReported == [][MismatchCase => MismatchReported]_vars

\* C3 amended: the same, provided the run pending in the buffer is not a
\* malformed number, which #flushBuffer reports first.
C3_MismatchReported ==
  [][(MismatchCase /\ ~PendingMalformed) => MismatchReported]_vars

\* a mismatch was reported for a closer that is not the first character
C3_Witness ==
  /\ status = "threw"
  /\ error.message[1] = "Mismatched brackets: expected '"
  /\ error.message[2] # error.message[4]
  /\ error.position > 1
  /\ tokenStack # <<>>

----------------------------------------------------------------------------
(* C4.  Unbalanced brackets never yield a result.                          *)

UnbalancedCloserCase == Dispatching("finishBlock") /\ tokenStack = <<>>

UnbalancedCloserReported ==
  /\ status' = "threw"
  /\ error'.message = <<"Unbalanced closing bracket '", Char, "'">>
  /\ error'.position = position

UnclosedBlockCase == AtEndOfInput /\ tokenStack # <<>>

UnclosedBlockReported ==
  /\ status' = "threw"
  /\ error'.message = <<"Unclosed block starting with '",
                        blocks[Last(tokenStack)].opener, "'">>

ReturnsOnlyBalanced ==
  status = "returned" => Balanced(BracketsOf(dispatched))

\* C4 as stated: tokenize() never returns on unbalanced brackets; a closer
\* on an empty stack throws 'Unbalanced closing bracket' at that character,
\* and end of input with open blocks throws 'Unclosed block' naming the
\* innermost opener.
C4_UnbalancedAlwaysReported ==
  /\ []ReturnsOnlyBalanced
  /\ [][/\ UnbalancedCloserCase => UnbalancedCloserReported
        /\ UnclosedBlockCase => UnclosedBlockReported]_vars

\* C4 amended: the same, except that when the run pending in the buffer is
\* a malformed number the flush before either check throws first.
C4_UnbalancedReported ==
  /\ []ReturnsOnlyBalanced
  /\ [][/\ (UnbalancedCloserCase /\ ~PendingMalformed)
             => UnbalancedCloserReported
        /\ (UnclosedBlockCase /\ ~PendingMalformed)
             => UnclosedBlockReported]_vars

\* 'Unclosed block' was thrown with two open blocks of different kinds
C4_Witness ==
  /\ status = "threw"
  /\ error.message[1] = "Unclosed block starting with '"
  /\ Len(tokenStack) >= 2
  /\ blocks[tokenStack[1]].opener # blocks[Last(tokenStack)].opener

----------------------------------------------------------------------------
(* C5.  End of input inside a string.                                      *)

\* C5: when the input ends inside a string literal, tokenize() fails with
\* the 'Unclosed string' error and nothing else.
C5_UnclosedStringReported ==
  (Finished /\ inString) =>
    /\ status = "threw"
    /\ error.message =
         <<"Unclosed string starting with '", stringDelimiter, "'">>

----------------------------------------------------------------------------
(* C6.  The value of a string token.                                       *)

\* the offset of the latest iteration that took the given branch
LastDispatchOf(branch) ==
  LET at == {i \in 1..Len(dispatched) : dispatched[i][2] = branch}
  IN dispatched[CHOOSE i \in at : \A j \in at : j <= i][1]

ClosesString == status = "running" /\ inString /\ ~inString'

\* C6: closing a string literal emits exactly one string token, whose value
\* is the source text from the opening delimiter through the closing one.
C6_StringTokenIsSourceText ==
  [][ClosesString =>
       ChildrenOf(tokens', blocks', currentBlock) =
         Append(ChildrenOf(tokens, blocks, currentBlock),
                [type |-> "string",
                 value |-> Slice(input, LastDispatchOf("startString"),
                                 position + 1)])]_vars

----------------------------------------------------------------------------
(* C7.  Positions on tokens.                                               *)

HasPosition(t) ==
  /\ "position" \in DOMAIN t
  /\ t.position.start.line >= 1 /\ t.position.start.column >= 1
  /\ t.position.end.line >= 1 /\ t.position.end.column >= 1

\* C7: with trackPosition on, every non-block token tokenize() returns
\* carries a position with 1-based start and end line and column.
C7_TokensCarryPosition ==
  (options.trackPosition /\ status = "returned") =>
    \A t \in TreeTokens : t.type # "block" => HasPosition(t)

----------------------------------------------------------------------------
(* C8.  Classification of a flushed run.                                   *)

\* the characters the two buffer branches accept
BufferChars == Digits \cup IdentifierChars

\* outside a string a run is pending and the next character (or the end of
\* the input) ends it
RunEnds ==
  /\ status = "running" /\ ~inString /\ tokenBuffer # <<>>
  /\ position >= Len(input) \/ Char \notin BufferChars

\* the buffer is the whole run: the source text of the buffer iterations
\* just before, which no other buffer iteration precedes
RunIsMaximal ==
  LET n == Len(tokenBuffer)
      d == Len(dispatched)
  IN /\ d >= n
     /\ tokenBuffer = Slice(input, position - n, position)
     /\ \A k \in 1..n :
          /\ dispatched[d - n + k][1] = position - n + k - 1
          /\ dispatched[d - n + k][2] \in {"digit", "identifier"}
     /\ d > n => dispatched[d - n][2] \notin {"digit", "identifier"}

\* what the step that ends the run makes of it
RunOutcome ==
  LET buf == tokenBuffer
      before == ChildrenOf(tokens, blocks, currentBlock)
      after == ChildrenOf(tokens', blocks', currentBlock)
      kind == IF OnlyNumberChars(buf) THEN "number" ELSE "identifier"
  IN IF Dispatching("unexpected")
     THEN \* thrown without a flush
          tokenBuffer' = buf /\ after = before
     ELSE IF OnlyNumberChars(buf) /\ DotCount(buf) >= 2
     THEN /\ status' = "threw"
          /\ error'.message = <<"Invalid number format: ">> \o buf
          /\ after = before
     ELSE /\ Len(after) > Len(before)
          /\ SubSeq(after, 1, Len(before)) = before
          /\ after[Len(before) + 1] = [type |-> kind, value |-> buf]
          /\ \A i \in (Len(before) + 2)..Len(after) :
               after[i].type \notin {"number", "identifier"}
          /\ tokenBuffer' = <<>>

----------------------------------------------------------------------------
(* C9.  Multi-character operators.                                         *)

\* the longest operator of the two sets that starts at an offset, <<>> if
\* none does
OperatorAt(pos) ==
  IF Slice(input, pos, pos + 3) \in ThreeCharOps THEN Slice(input, pos, pos + 3)
  ELSE IF Slice(input, pos, pos + 2) \in TwoCharOps THEN Slice(input, pos, pos + 2)
  ELSE <<>>

\* the step appends Symbol(op), preceded by at most the token of the
\* flushed run, and goes on after the operator
EmitsOperator(op) ==
  LET before == ChildrenOf(tokens, blocks, currentBlock)
      after == ChildrenOf(tokens', blocks', currentBlock)
      flushed == IF tokenBuffer = <<>> THEN 0 ELSE 1
  IN /\ Len(after) = Len(before) + flushed + 1
     /\ SubSeq(after, 1, Len(before)) = before
     /\ flushed = 1 => after[Len(before) + 1].type \in {"number", "identifier"}
     /\ Last(after) = [type |-> "symbol", value |-> op]
     /\ position' = position + Len(op)
     /\ status' = "running"

\* C9: every 3- or 2-character operator met outside a string, comment or
\* regex becomes exactly one Symbol token whose value is the operator (a
\* malformed pending run, which fails the scan, set aside).
C9_OperatorsEmittedWhole ==
  [][(Running /\ ~inString /\ OperatorAt(position) # <<>>
        /\ ~PendingMalformed)
       => EmitsOperator(OperatorAt(position))]_vars

----------------------------------------------------------------------------
(* C10.  Greedy operator matching.                                         *)

\* the three characters at the offset
ThreeHere == Slice(input, position, position + 3)

\* the step appended a Symbol to the open container
SymbolEmitted ==
  LET before == ChildrenOf(tokens, blocks, currentBlock)
      after == ChildrenOf(tokens', blocks', currentBlock)
  IN Len(after) > Len(before) /\ Last(after).type = "symbol"

EmittedValue == Last(ChildrenOf(tokens', blocks', currentBlock)).value

\* a 2-character operator only where no 3-character one starts, and the
\* scan resumes right after the operator emitted
EmittedGreedily ==
  SymbolEmitted =>
    /\ Len(EmittedValue) = 2 => ThreeHere \notin ThreeCharOps
    /\ EmittedValue = Slice(input, position, position + Len(EmittedValue))
    /\ position' = position + Len(EmittedValue)

\* C10 as stated: when the operator branch is taken where === or !== starts,
\* exactly one Symbol with that value is emitted; a 2-character operator is
\* emitted only where no 3-character one starts; scanning resumes right
\* after the operator.
C10_GreedyAlways ==
  [][Dispatching("operator") =>
       /\ ThreeHere \in ThreeCharOps => EmitsOperator(ThreeHere)
       /\ EmittedGreedily]_vars

\* C10 amended: the same, unless the run pending in the buffer is a
\* malformed number, on which the flush of the operator branch throws and
\* nothing is emitted.
C10_Greedy ==
  [][Dispatching("operator") =>
       /\ (ThreeHere \in ThreeCharOps /\ ~PendingMalformed)
            => EmitsOperator(ThreeHere)
       /\ EmittedGreedily]_vars

\* a 3-character operator was emitted after a pending run and the scan went
\* on behind it
C10_Witness ==
  /\ \E i \in 2..Len(tokens) :
       /\ tokens[i] = [type |-> "symbol", value |-> <<"!", "=", "=">>]
       /\ tokens[i - 1].type = "identifier"
  /\ Last(dispatched)[2] = "operator"
  /\ position = Last(dispatched)[1] + 3
  /\ position < Len(input)


----------------------------------------------------------------------------
(* Comments.                                                               *)

MaxCommentLen == 5

CommentAlphabet == {"/", "*", "\n", "a"}

CommentInputs == Scenarios \cup Words(CommentAlphabet, MaxCommentLen)

\* new Tokenizer(input, {preserveComments: false})
CommentsOff == [DefaultOptions EXCEPT !.preserveComments = FALSE]

SpecComments ==
  Construct(CommentInputs, {DefaultOptions, CommentsOff}) /\ [][Next]_vars

\* the 1-based line of the character at 0-based offset off
TrueLine(inp, off) == 1 + NewlineCount(Slice(inp, 0, off))

\* the 1-based column of the character at 0-based offset off
TrueColumn(inp, off) == 1 + LastLineLength(Slice(inp, 0, off))

\* the loop is about to scan a block comment
AtBlockComment == Dispatching("comment") /\ input[position + 2] = "*"

\* the block comment that starts at the current offset
CommentHere ==
  Slice(input, position, IndexOf(input, <<"*", "/">>, position + 2) + 2)

\* C11: after a block comment is scanned with preserveComments off, no
\* token is emitted for it, and line and column are the true 1-based line
\* and column of the character after the closing */, for single-line and
\* for multi-line block comments
C11_BlockCommentPosition ==
  [][AtBlockComment /\ ~options.preserveComments /\ status' = "running"
       => /\ \A t \in TreeTokens' : t.type # "comment"
          /\ line' = TrueLine(input, position')
          /\ column' = TrueColumn(input, position')]_vars

\* C11, the part the code implements: no token for the comment, the line
\* counter grows by the newlines of the comment, and after a multi-line
\* comment the column is the true column of the next character
C11_MultiLineCommentPosition ==
  [][AtBlockComment /\ ~options.preserveComments /\ status' = "running"
       => /\ \A t \in TreeTokens' : t.type # "comment"
          /\ line' = line + NewlineCount(CommentHere)
          /\ NewlineCount(CommentHere) > 0
               => column' = TrueColumn(input, position')]_vars

\* a multi-line block comment was scanned and discarded, and the scan went on
C11_Witness ==
  /\ ~options.preserveComments
  /\ status = "returned"
  /\ \E i \in 1..Len(dispatched) :
       /\ dispatched[i][2] = "comment"
       /\ input[dispatched[i][1] + 2] = "*"
       /\ NewlineCount(Slice(input, dispatched[i][1], position)) > 0
       /\ i < Len(dispatched)


----------------------------------------------------------------------------
(* The instance after tokenize().                                          *)

MaxInstanceLen == 4

InstanceAlphabet == {"(", ")", "a", ",", "1"}

InstanceInputs == Scenarios \cup Words(InstanceAlphabet, MaxInstanceLen)

SpecInstance ==
  Construct(InstanceInputs, {DefaultOptions}) /\ [][NextInstance]_vars

\* a token list as a value: every block reference replaced by the block
RECURSIVE Deref(_, _)
Deref(toks, bl) ==
  [i \in 1..Len(toks) |->
     IF toks[i].type = "block"
     THEN [type |-> "block",
           opener |-> bl[toks[i].ref].opener,
           closer |-> bl[toks[i].ref].closer,
           children |-> Deref(bl[toks[i].ref].children, bl)]
     ELSE toks[i]]

\* the token tree the instance stores
StoredTree == Deref(tokens, blocks)

\* what find() returns, as a value
Found(types) == Deref(find(types), blocks)

\* the predicates find() is called with: one type, or every token
FindPredicates == {{ty} : ty \in FilterTypes} \cup {FilterTypes \cup {"string"}}

\* what filter(type) would return in this state, as a value
WouldFilter(type) ==
  LET r == FilterRecursive(tokens, blocks, type) IN Deref(r.kept, r.blocks)

\* a step that is a call of filter()
IsFilterCall == status = "returned" /\ filtered' # filtered

\* C12: filter(type) is read-only: a call leaves the stored tree unchanged,
\* so find(p), getStats() and toString() return after the call what they
\* returned before it, and a second filter call with any type returns what
\* it would have returned without the first
C12_FilterReadOnly ==
  [][IsFilterCall
       => /\ StoredTree' = StoredTree
          /\ \A types \in FindPredicates : Found(types)' = Found(types)
          /\ getStats' = getStats
          /\ toString' = toString
          /\ \A type \in FilterTypes : WouldFilter(type)' = WouldFilter(type)
    ]_vars


\* the filter of a tree by type: a non-block token is kept exactly when
\* its type is T, a Block exactly when T is "block" or one of its
\* descendants is kept, and the children of a kept Block are filtered alike
RECURSIVE RefFilter(_, _)
RefFilter(tree, T) ==
  IF tree = <<>> THEN <<>>
  ELSE LET t == Head(tree)
           rest == RefFilter(Tail(tree), T)
       IN IF t.type = "block"
          THEN LET kids == RefFilter(t.children, T)
               IN IF T = "block" \/ kids # <<>>
                  THEN <<[t EXCEPT !.children = kids]>> \o rest
                  ELSE rest
          ELSE IF t.type = T THEN <<t>> \o rest ELSE rest

\* what the call of filter() in this step returned, as a value
Returned == Deref(Last(filtered').value, blocks')

\* C13 as claimed: for every type T, filter(T) returns the tree filtered by
\* T, filter("block") included, which keeps every Block and leaves only
\* Blocks at every depth
C13_FilterSemantics ==
  [][IsFilterCall => Returned = RefFilter(StoredTree, Last(filtered').type)
    ]_vars

\* C13 as the code has it: for a type T other than "block" filter(T)
\* returns the tree filtered by T; filter("block") returns the top-level
\* Blocks of the stored tree, each with all of its children
C13_FilterByType ==
  [][IsFilterCall
       => IF Last(filtered').type = "block"
          THEN Returned = SelectSeq(StoredTree, LAMBDA t : t.type = "block")
          ELSE Returned = RefFilter(StoredTree, Last(filtered').type)
    ]_vars

\* filter() kept a Block for a descendant of the type, dropped a token of
\* another type, and filter("block") returned a Block
C13_Witness ==
  /\ \E i \in 1..Len(filtered) :
       /\ filtered[i].type # "block"
       /\ \E t \in Range(filtered[i].value) : t.type = "block"
       /\ Len(find({filtered[i].type})) < Len(input) - 2
  /\ \E i \in 1..Len(filtered) :
       /\ filtered[i].type = "block"
       /\ filtered[i].value # <<>>


----------------------------------------------------------------------------
(* Regex literals.                                                         *)

MaxRegexLen == 5

RegexAlphabet == {"/", "g", "\\", "[", "]", "."}

\* a line break inside a pattern, raw, in a class and escaped
RegexLineBreaks ==
  { <<"/", "g", "\n", "/">>,
    <<"/", "[", "\n", "]", "/">>,
    <<"/", "\\", "\n", "/", "g">> }

RegexInputs ==
  Scenarios \cup RegexLineBreaks \cup Words(RegexAlphabet, MaxRegexLen)

SpecRegex == Construct(RegexInputs, {DefaultOptions}) /\ [][Next]_vars

\* the character at offset j of a literal that opens at offset p is escaped:
\* the backslashes right before it, inside the literal, are odd in number
EscapedAt(p, j) ==
  LET run == {k \in (p + 1)..(j - 1) :
                \A m \in k..(j - 1) : input[m + 1] = "\\"}
  IN Cardinality(run) % 2 = 1

\* offset j of a literal that opens at offset p is inside a character class
InClassAt(p, j) ==
  \E k \in (p + 1)..(j - 1) :
    /\ input[k + 1] = "[" /\ ~EscapedAt(p, k)
    /\ \A m \in (k + 1)..(j - 1) : ~(input[m + 1] = "]" /\ ~EscapedAt(p, m))

\* the offsets of the slashes that can close the literal opening at p
Terminators(p) ==
  {j \in (p + 1)..(Len(input) - 1) :
     input[j + 1] = "/" /\ ~EscapedAt(p, j) /\ ~InClassAt(p, j)}

\* the first of them
Terminator(p) == CHOOSE j \in Terminators(p) : \A k \in Terminators(p) : j <= k

\* the literal opening at p is terminated: it has a closing slash and no
\* line break before it
TerminatedAt(p) ==
  /\ Terminators(p) # {}
  /\ \A k \in (p + 1)..(Terminator(p) - 1) :
       ~(input[k + 1] = "\n" /\ ~EscapedAt(p, k))

\* the offset after the maximal run of flag letters that starts at offset j
FlagRunEnd(j) ==
  CHOOSE e \in j..Len(input) :
    /\ \A m \in j..(e - 1) : input[m + 1] \in RegexFlags
    /\ e < Len(input) => input[e + 1] \notin RegexFlags

\* the number of regex tokens emitted so far
RegexTokenCount ==
  Len(SelectSeq(tokens, LAMBDA t : t.type = "regex"))
  + Cardinality({<<b, i>> \in (DOMAIN blocks) \X (1..Len(input)) :
                   /\ i \in DOMAIN blocks[b].children
                   /\ blocks[b].children[i].type = "regex"})

\* the regex step emits one regex token, the source text from the opening
\* slash through the terminator and the flags, and resumes after it
RegexScanned ==
  LET end == FlagRunEnd(Terminator(position) + 1)
  IN /\ status' = "running"
     /\ RegexTokenCount' = RegexTokenCount + 1
     /\ LET into == ChildrenOf(tokens', blocks', currentBlock)
        IN /\ into # <<>>
           /\ Last(into) = [type |-> "regex",
                            value |-> Slice(input, position, end)]
     /\ position' = end

\* C14: when a / is accepted as a regex start and the literal is
\* terminated, exactly one regex token is emitted whose value is the source
\* text from the / through the first later / that is neither escaped nor in
\* a character class, and the maximal run of flag letters after it;
\* scanning resumes at the first character after that text
C14_RegexTokenIsSourceText ==
  [][Dispatching("regex") /\ TerminatedAt(position) => RegexScanned]_vars

\* C14 for a regex start with no malformed number pending in the buffer
C14_RegexScannedAfterFlush ==
  [][Dispatching("regex") /\ TerminatedAt(position) /\ ~PendingMalformed
       => RegexScanned]_vars

\* a literal that is not terminated is reported
C14_UnterminatedReported ==
  [][Dispatching("regex") /\ ~TerminatedAt(position) => status' = "threw"]_vars


----------------------------------------------------------------------------
(* A second call of tokenize().                                            *)

\* a call of tokenize() after the first is under way
CalledAgain == status = "running" /\ Len(returns) >= 1

\* C15: a second call of tokenize() on the instance, after a first call
\* that returned, returns the token sequence the first call returned, with
\* no token missing or duplicated: the call leaves the stored tokens as
\* they are and returns them
C15_SecondCallReturnsSame ==
  /\ [](Len(returns) >= 2 => returns[2] = returns[1])
  /\ [][CalledAgain
          => /\ tokens' = tokens /\ blocks' = blocks
             /\ status' = "returned" /\ result' = tokens]_vars

\* tokenize() returned twice, a sequence with a Block and another token
C15_Witness ==
  /\ Len(returns) = 2
  /\ \E t \in Range(returns[2]) : t.type = "block"
  /\ \E t \in Range(returns[2]) : t.type # "block"


----------------------------------------------------------------------------
(* Round trip.                                                             *)

MaxRoundTripLen == 5

RoundTripAlphabet == {"(", ")", "a", " ", "\""}

RoundTripInputs == Scenarios \cup Words(RoundTripAlphabet, MaxRoundTripLen)

\* new Tokenizer(input, {preserveWhitespace: true})
PreserveAll == [DefaultOptions EXCEPT !.preserveWhitespace = TRUE]

SpecRoundTrip ==
  Construct(RoundTripInputs, {DefaultOptions, PreserveAll}) /\ [][Next]_vars

\* opener, stringified children and closer of every Block of a token list,
\* the value of every other token, concatenated in order
RECURSIVE Stringify(_, _)
Stringify(toks, bl) ==
  IF toks = <<>> THEN <<>>
  ELSE LET t == Head(toks)
       IN (IF t.type = "block"
           THEN <<bl[t.ref].opener>> \o Stringify(bl[t.ref].children, bl)
                                     \o <<bl[t.ref].closer>>
           ELSE t.value)
          \o Stringify(Tail(toks), bl)

\* the offsets the loop dispatched to a branch
OffsetsOf(branch) ==
  {dispatched[i][1] : i \in {j \in 1..Len(dispatched) :
                               dispatched[j][2] = branch}}

\* the offset of the bracket that opened Block b
OpenOffset(b) ==
  CHOOSE o \in OffsetsOf("startBlock") :
    Cardinality({x \in OffsetsOf("startBlock") : x < o}) = b - 1

\* the offset of the bracket that closed Block b
CloseOffset(b) ==
  LET o == OpenOffset(b)
      closing ==
        {c \in OffsetsOf("finishBlock") :
           /\ c > o
           /\ Cardinality({x \in OffsetsOf("startBlock") : o < x /\ x < c})
                = Cardinality({x \in OffsetsOf("finishBlock") :
                                 o < x /\ x < c})}
  IN CHOOSE c \in closing : \A d \in closing : c <= d

\* opener, stringified children and closer of Block b are its source text
RoundTrips(b) ==
  Stringify(<<BlockToken(b)>>, blocks)
    = Slice(input, OpenOffset(b), CloseOffset(b) + 1)

\* C16: for every Block in the result of a successful tokenize(), opener,
\* stringified children and closer reconstruct the source text from the
\* opening bracket through the closing bracket
C16_RoundTrip ==
  status = "returned" => \A b \in DOMAIN blocks : RoundTrips(b)

\* C16 where whitespace and comments are preserved and the input has no
\* string literal and no carriage return
C16_RoundTripWithoutStrings ==
  /\ status = "returned"
  /\ options.preserveWhitespace /\ options.preserveComments
  /\ OffsetsOf("startString") = {}
  /\ \A i \in 1..Len(input) : input[i] # "\r"
  => \A b \in DOMAIN blocks : RoundTrips(b)

\* C16 where whitespace and comments are preserved
C16_RoundTripWhenPreserved ==
  /\ status = "returned"
  /\ options.preserveWhitespace /\ options.preserveComments
  => \A b \in DOMAIN blocks : RoundTrips(b)


----------------------------------------------------------------------------
(* Regex or division.                                                      *)

MaxPhraseLen == 4

return == <<"r", "e", "t", "u", "r", "n">>

throw == <<"t", "h", "r", "o", "w">>

PhraseFragments == {return, throw, <<" ">>, <<"/">>, <<"a">>}

\* the concatenations of at most n fragments
RECURSIVE Phrases(_, _)
Phrases(fragments, n) ==
  IF n = 0 THEN {<<>>}
  ELSE Phrases(fragments, n - 1)
       \cup {p \o f : p \in Phrases(fragments, n - 1), f \in fragments}

PhraseInputs == Scenarios \cup Phrases(PhraseFragments, MaxPhraseLen)

SpecPhrases == Construct(PhraseInputs, {DefaultOptions}) /\ [][Next]_vars

\* the last token of the current container that is neither whitespace nor
\* a comment has one of the values
LastMeaningfulValueIn(values) ==
  LET into == ChildrenOf(tokens, blocks, currentBlock)
      meaningful == SelectSeq(into, LAMBDA t :
                                t.type \notin {"whitespace", "comment"})
  IN /\ meaningful # <<>>
     /\ Last(meaningful).type # "block"
     /\ Last(meaningful).value \in values

\* the loop is at a / outside a string, with nothing pending in the buffer,
\* followed by a character other than / = and *
AtSlash ==
  /\ Running /\ ~inString /\ Char = "/"
  /\ tokenBuffer = <<>>
  /\ position + 1 < Len(input)
  /\ input[position + 2] \notin {"/", "=", "*"}

\* C17: with allowRegex on, when the last meaningful token before a / has
\* value return or throw, and the character after the / is neither / nor =,
\* the / is scanned as the start of a regex literal
C17_RegexAfterKeyword ==
  /\ options.allowRegex /\ AtSlash
  /\ LastMeaningfulValueIn({return, throw})
  => Branch(Here, Char) = "regex"

\* the loop is at a / outside a string, right after a run that is still
\* pending in the buffer, and the / opens neither a comment nor /=
AtSlashAfterRun ==
  /\ Running /\ ~inString /\ Char = "/"
  /\ tokenBuffer # <<>>
  /\ position + 1 < Len(input) => input[position + 2] \notin {"/", "=", "*"}

\* C18: a / that immediately follows an identifier or number run still
\* pending in the buffer is a division operator: the regex scanner is not
\* entered and the / is dispatched to the symbol branch, which emits the
\* run's token and then Symbol("/")
C18_SlashAfterRunIsDivision ==
  AtSlashAfterRun => Branch(Here, Char) = "symbol"

\* C18 where a token other than a symbol of the regex context precedes the
\* pending run in the current container
C18_DivisionAfterOtherToken ==
  /\ AtSlashAfterRun
  /\ ChildrenOf(tokens, blocks, currentBlock) # <<>>
  /\ ~LastMeaningfulValueIn(RegexContextValues)
  => Branch(Here, Char) = "symbol"


----------------------------------------------------------------------------
(* Options.                                                                *)

MaxOptionLen == 5

OptionAlphabet == {"/", "*", " ", "a", "="}

\* a regex start found across a comment and whitespace, and a division
OptionScenarios ==
  { <<"=", " ", "/", "*", "*", "/", " ", "/", "a", "/">>,
    <<"a", " ", "/", "*", "*", "/", " ", "/", "a", "/", "\n", "/", "/">> }

OptionInputs ==
  Scenarios \cup OptionScenarios \cup Words(OptionAlphabet, MaxOptionLen)

\* the settings of preserveComments and preserveWhitespace
OptionSettings ==
  {[DefaultOptions EXCEPT !.preserveComments = c, !.preserveWhitespace = w] :
     c \in BOOLEAN, w \in BOOLEAN}

SpecOptions == Construct(OptionInputs, OptionSettings) /\ [][Next]_vars

\* a tree without the tokens of a type, at every depth
RECURSIVE Without(_, _)
Without(tree, type) ==
  IF tree = <<>> THEN <<>>
  ELSE LET t == Head(tree)
           rest == Without(Tail(tree), type)
       IN IF t.type = type THEN rest
          ELSE IF t.type = "block"
          THEN <<[t EXCEPT !.children = Without(@, type)]>> \o rest
          ELSE <<t>> \o rest

\* the outcome of this call of tokenize(), the tokens of a type deleted
OutcomeWithout(type) ==
  IF status = "threw" THEN [error |-> error]
  ELSE [tokens |-> Without(StoredTree, type)]

\* the outcome of tokenize() on an input under a setting of the options
OutcomeUnder(inp, opt) ==
  LET s == Tokenize(inp, opt)
  IN IF Threw(s) THEN [error |-> s.thrown]
     ELSE [tokens |-> Deref(s.tokens, s.blocks)]

\* C19: the options preserveComments and preserveWhitespace only toggle
\* the presence of tokens of their own type: the outcome with the option
\* off is the outcome with the option on after every token of the type is
\* deleted at every depth (the same error, or the same remaining tokens in
\* the same order and nesting)
C19_OptionsOnlyToggleTokens ==
  Finished
  => /\ options.preserveComments
          => OutcomeWithout("comment")
               = OutcomeUnder(input,
                              [options EXCEPT !.preserveComments = FALSE])
     /\ options.preserveWhitespace
          => OutcomeWithout("whitespace")
               = OutcomeUnder(input,
                              [options EXCEPT !.preserveWhitespace = FALSE])

\* tokenize() returned a comment, a whitespace and a regex token
C19_Witness ==
  /\ status = "returned"
  /\ options.preserveComments /\ options.preserveWhitespace
  /\ \A type \in {"comment", "whitespace", "regex"} :
       \E t \in TreeTokens : t.type = type

\* the run of the actions ends as tokenize() does as a function
TokenizeAgrees ==
  Finished
  => (IF status = "threw" THEN [error |-> error]
      ELSE [tokens |-> StoredTree]) = OutcomeUnder(input, options)


----------------------------------------------------------------------------
(* Termination.                                                            *)

MaxProgressLen == 4

ProgressAlphabet == {"\\", "\"", "\r", "\n", "/", "*", "=", "a"}

ProgressInputs == Scenarios \cup Words(ProgressAlphabet, MaxProgressLen)

\* tokenize() is sequential code: a loop iteration or the code after the
\* loop that can run does run
SpecProgress ==
  /\ Construct(ProgressInputs, {DefaultOptions})
  /\ [][Next]_vars
  /\ WF_vars(Next)

\* C20: tokenize() terminates on every finite input, returning or
\* throwing: every iteration of the main loop that does not throw leaves
\* the offset strictly greater than it was at the start of the iteration
\* and never greater than the input length
C20_Terminates ==
  /\ [][Running /\ status' = "running"
          => position' > position /\ position' <= Len(input)]_vars
  /\ <>Finished

\* tokenize() ended after an iteration in a string that moved the offset by
\* more than one character
C20_Witness ==
  /\ Finished
  /\ \E i \in 1..(Len(dispatched) - 1) :
       /\ dispatched[i][2] = "string"
       /\ dispatched[i + 1][1] > dispatched[i][1] + 1


----------------------------------------------------------------------------
(* Literals are opaque.                                                    *)

MaxLiteralLen == 5

LiteralAlphabet == {"\"", "'", "(", ")", "/", "*"}

\* a string, a block comment and a regex literal, each with a bracket inside
LiteralScenarios ==
  { <<"\"", "(", "'", "\"", "/", "*", "[", "*", "/", "=", "/", ")", "/">> }

LiteralInputs ==
  Scenarios \cup LiteralScenarios \cup Words(LiteralAlphabet, MaxLiteralLen)

SpecLiterals == Construct(LiteralInputs, {DefaultOptions}) /\ [][Next]_vars

\* the loop is at a character of a string literal, or at the first
\* character of a comment or of a regex literal
InLiteral ==
  /\ Running
  /\ Branch(Here, Char) \in {"startString", "string", "comment", "regex"}

\* the character that opened the string the loop is in
OpeningDelimiter == input[LastDispatchOf("startString") + 1]

\* the offset after the comment that starts at the current offset
CommentEndHere ==
  IF input[position + 2] = "*"
  THEN IndexOf(input, <<"*", "/">>, position + 2) + 2
  ELSE IF IndexOf(input, <<"\n">>, position) = -1 THEN Len(input)
       ELSE IndexOf(input, <<"\n">>, position)

\* the offset after the regex literal that starts at the current offset
RegexEndHere == FlagRunEnd(Terminator(position) + 1)

\* C21: characters inside a string literal, a comment or a regex literal
\* never act as brackets, quotes or comment starts: every step inside a
\* literal leaves the bracket stack and the current Block as they are and
\* creates no Block, so the stack after the literal is the stack before
\* it; a step inside a string adds no token but the string token and ends
\* the string only at the character that opened it; the step that scans a
\* comment or a regex literal starts no string and resumes after the
\* literal's last character
C21_LiteralsAreOpaque ==
  [][InLiteral
       => /\ tokenStack' = tokenStack
          /\ currentBlock' = currentBlock
          /\ Len(blocks') = Len(blocks)
          /\ inString
               => /\ \A t \in TreeTokens' \ TreeTokens : t.type = "string"
                  /\ ~inString' => Char = OpeningDelimiter
          /\ Branch(Here, Char) \in {"comment", "regex"}
               => /\ ~inString'
                  /\ status' = "running"
                       => position' = IF Branch(Here, Char) = "comment"
                                      THEN CommentEndHere ELSE RegexEndHere
    ]_vars

\* tokenize() returned a string, a comment and a regex token that each hold
\* a bracket, the string also a quote that is not its delimiter, and no
\* Block
C21_Witness ==
  /\ status = "returned"
  /\ blocks = <<>>
  /\ \A type \in {"string", "comment", "regex"} :
       \E t \in Range(tokens) :
         /\ t.type = type
         /\ \E i \in 1..Len(t.value) : t.value[i] \in Openers \cup Closers
  /\ \E t \in Range(tokens) :
       /\ t.type = "string"
       /\ \E i \in 1..Len(t.value) : t.value[i] \in Quotes


----------------------------------------------------------------------------
(* Line and column.                                                        *)

\* the 1-based indexes of the characters that end a line: a line feed, or
\* a carriage return that no line feed follows
LineBreaks ==
  {k \in 1..Len(input) :
     \/ input[k] = "\n"
     \/ input[k] = "\r" /\ ~(k < Len(input) /\ input[k + 1] = "\n")}

\* 1 plus the number of line breaks before the 0-based offset off
LineAt(off) == 1 + Cardinality({k \in LineBreaks : k <= off})

\* 1 plus the number of characters between the last line break before the
\* 0-based offset off and that offset
ColumnAt(off) ==
  LET before == {k \in LineBreaks : k <= off}
  IN 1 + off - (IF before = {} THEN 0
                ELSE CHOOSE k \in before : \A j \in before : j <= k)

\* C22: at every dispatch of the main loop the scanner's line is 1 plus the
\* number of line breaks before the current offset (\r\n counted once) and
\* its column is 1 plus the number of characters between the last line
\* break and the current offset
C22_LineAndColumnAreTrue ==
  Running => line = LineAt(position) /\ column = ColumnAt(position)

\* C22 for the offsets reached through single characters only: whitespace,
\* characters of a run, single-character symbols and brackets
C22_TrueAfterSingleCharacters ==
  /\ Running
  /\ \A i \in 1..Len(dispatched) :
       dispatched[i][2] \in {"whitespace", "digit", "identifier", "symbol",
                             "startBlock", "finishBlock", "startString"}
  => line = LineAt(position) /\ column = ColumnAt(position)


----------------------------------------------------------------------------
(* String escapes.                                                         *)

MaxEscapeLen == 6

EscapeAlphabet == {"\\", "\"", "'", "a"}

EscapeInputs == Scenarios \cup Words(EscapeAlphabet, MaxEscapeLen)

SpecEscapes == Construct(EscapeInputs, {DefaultOptions}) /\ [][Next]_vars

\* the offset of the quote that opened the string the loop is in
StringStart == LastDispatchOf("startString")

\* the offsets after the opening quote that hold the opening delimiter and
\* are not the second character of an escape pair
StringEnds ==
  {j \in (StringStart + 1)..(Len(input) - 1) :
     input[j + 1] = input[StringStart + 1] /\ ~EscapedAt(StringStart, j)}

\* the loop is at a character of a string
InString == Running /\ inString

\* C23: inside a string a backslash that is not the last input character
\* consumes itself and the next character, whatever it is, so the string
\* ends at the first occurrence of its opening delimiter that is not the
\* second character of an escape pair: the loop never passes that
\* occurrence, and closes the string there and nowhere else
C23_EscapePairs ==
  /\ [](InString => \A j \in StringEnds : position <= j)
  /\ [][InString
          => /\ Char = "\\" /\ position + 1 < Len(input)
                  => /\ position' = position + 2
                     /\ tokenBuffer' = tokenBuffer
                                         \o <<"\\", input[position + 2]>>
                     /\ inString'
             /\ ~inString' <=> position \in StringEnds]_vars

\* tokenize() returned a string in which an escaped delimiter did not end
\* the string and the delimiter after an escaped backslash did
C23_Witness ==
  /\ status = "returned"
  /\ input = <<"\"", "\\", "\"", "\\", "\\", "\"">>
  /\ tokens = <<[type |-> "string", value |-> <<"\\", "\"", "\\", "\\">>]>>

====
